---------------------------- MODULE Spec2Model ----------------------------
(***************************************************************************)
(* Model of cmd/server/workflowtemplate/workflow_template_server.go:       *)
(* the per-request client resolver (GetWFClient) and the five handlers of  *)
(* WorkflowTemplateServer (Create, Get, List, Delete, Lint) running as     *)
(* concurrent requests against one namespaced template store.              *)
(*                                                                         *)
(* A handler is split at its network boundaries: the local preamble        *)
(* (client resolution, namespace selection, nil check), the validation     *)
(* call, and the backend call.  Each piece is one atomic step of the       *)
(* request that runs it; steps of different requests interleave freely.    *)
(***************************************************************************)
EXTENDS Naturals, Sequences, FiniteSets

(***************************************************************************)
(* Bounds of the model.                                                    *)
(***************************************************************************)
MaxInFlight == 2

Reqs == 1..MaxInFlight

(***************************************************************************)
(* Values.                                                                 *)
(***************************************************************************)
\* A Go error is a chain of messages; nil is the empty chain.
NoErr == <<>>

Err(msg) == <<msg>>

\* fmt.Errorf("...: %v", err): the message followed by the cause.
Wrap(msg, cause) == <<msg>> \o cause

\* A Go pointer is a sequence of at most one element; nil is empty.
NilPtr == <<>>

Ptr(x) == <<x>>

DefaultNamespace == "ns-a"

Namespaces == {"ns-a", "ns-b"}

\* The Namespace field of a request; "" leaves it to the server.
RequestNamespaces == {"", "ns-b"}

TemplateNames == {"t1", "t2"}

\* A workflow template: its name and the name of the template it calls
\* ("" when it calls none).
Templates ==
    { [name |-> "t1", ref |-> ""], [name |-> "t2", ref |-> "t1"] }

(***************************************************************************)
(* rest.Config, its JSON form and the clients built from it.               *)
(***************************************************************************)
ZeroConfig == [Host |-> "", BearerToken |-> ""]

\* The configuration the process-wide clients were built from at startup.
ServerConfig == [Host |-> "in-cluster", BearerToken |-> "sa-token"]

\* A serialized configuration: whether it is well-formed JSON and the
\* key/value pairs it holds.
BlobBad == [syntax |-> "bad", pairs |-> <<>>]

BlobWithToken ==
    [syntax |-> "ok",
     pairs  |-> << <<"Host", "h1">>, <<"BearerToken", "emb">> >>]

Blobs == {BlobBad, BlobWithToken}

Tokens == {"tok"}

\* Request metadata: md.Get(key) is the slice of values sent under key.
Metadata ==
    [cfg : {<<>>} \cup {<<b>> : b \in Blobs},
     tok : {<<>>} \cup {<<t>> : t \in Tokens}]

RECURSIVE SetFields(_, _)
\* json.Unmarshal into a struct: every pair whose key is a field of the
\* struct sets that field, later pairs winning; other keys are ignored.
SetFields(pairs, cfg) ==
    IF pairs = <<>> THEN cfg
    ELSE LET k == Head(pairs)[1]
             v == Head(pairs)[2]
             next == IF k = "Host" THEN [cfg EXCEPT !.Host = v]
                     ELSE IF k = "BearerToken"
                          THEN [cfg EXCEPT !.BearerToken = v]
                          ELSE cfg
         IN  SetFields(Tail(pairs), next)

Unmarshal(blob, into) ==
    IF blob.syntax # "ok"
    THEN [cfg |-> into, err |-> Err("invalid character")]
    ELSE [cfg |-> SetFields(blob.pairs, into), err |-> NoErr]

NilClient == [kind |-> "nil", cfg |-> ZeroConfig]

NewForConfig(kind, cfg) == [kind |-> kind, cfg |-> cfg]

\* What a client constructor call can do.
Constructions == {"ok", "wfFail", "kubeFail"}


(***************************************************************************)
(* The server, the store and the requests.                                 *)
(***************************************************************************)
VARIABLES
    server,        \* the WorkflowTemplateServer struct
    store,         \* the backend: the templates stored in each namespace
    slot,          \* per request: the handler's frame (its locals and place)
    ctxCancelled,  \* per request: its context was cancelled during a call
    backendUp      \* whether the backend answers calls

vars == <<server, store, slot, ctxCancelled, backendUp>>

NewWorkflowTemplateServer(namespace, wfClientset, kubeClientSet, enableClientAuth) ==
    [namespace        |-> namespace,
     wfClientset      |-> wfClientset,
     kubeClientset    |-> kubeClientSet,
     enableClientAuth |-> enableClientAuth]

SharedWfClient == NewForConfig("wf", ServerConfig)

SharedKubeClient == NewForConfig("kube", ServerConfig)

\* What a handler has returned: nothing yet, a (value, error) pair, or a
\* runtime panic that unwound it.
NoRes == [status |-> "none", val |-> NilPtr, err |-> NoErr]

Return(val, err) == [status |-> "returned", val |-> val, err |-> err]

Panicked == [status |-> "panic", val |-> NilPtr, err |-> NoErr]

NoRequest == [ns |-> ""]

IdleSlot ==
    [pc |-> "idle", op |-> "", req |-> NoRequest,
     md |-> [cfg |-> <<>>, tok |-> <<>>],
     wfClient |-> NilClient, built |-> 0, namespace |-> "",
     calls |-> <<>>, res |-> NoRes]

CreateRequests ==
    [ns : RequestNamespaces, tmpl : {NilPtr} \cup {Ptr(t) : t \in Templates}]

GetRequests == [ns : RequestNamespaces, name : TemplateNames]

ListRequests == [ns : RequestNamespaces]

DeleteRequests == [ns : RequestNamespaces, name : TemplateNames]

(***************************************************************************)
(* GetWFClient: the client pair for one request.  construct is what the    *)
(* two client constructors do when they are reached; built counts the      *)
(* constructor calls that returned a client.                               *)
(***************************************************************************)
NoClients(err, built) ==
    [wf |-> NilClient, kube |-> NilClient, err |-> err, built |-> built]

\* return s.wfClientset, s.kubeClientset, nil
SharedClients(s) ==
    [wf |-> s.wfClientset, kube |-> s.kubeClientset, err |-> NoErr, built |-> 0]

\* GetWFClient past its enableClientAuth check.
PerRequestClients(md, construct) ==
    IF Len(md.cfg) = 0
    THEN NoClients(Err("Client kubeconfig is not found"), 0)
    ELSE
      LET restConfigStr == md.cfg[1]
          bearerToken   == IF Len(md.tok) > 0 THEN md.tok[1] ELSE ""
          parsed        == Unmarshal(restConfigStr, ZeroConfig)
          restConfig    == [parsed.cfg EXCEPT !.BearerToken = bearerToken]
      IN  IF parsed.err # NoErr THEN NoClients(parsed.err, 0)
          ELSE IF construct = "wfFail"
          THEN NoClients(Err("wfclientset.NewForConfig failed"), 0)
          ELSE IF construct = "kubeFail"
          THEN NoClients(Err("kubernetes.NewForConfig failed"), 1)
          ELSE [wf   |-> NewForConfig("wf", restConfig),
                kube |-> NewForConfig("kube", restConfig),
                err  |-> NoErr, built |-> 2]

\* A resolver that builds per-request clients whenever a configuration is
\* attached, whatever enableClientAuth says.
GetWFClient_IgnoresFlag(s, md, construct) ==
    IF ~s.enableClientAuth /\ Len(md.cfg) = 0 THEN SharedClients(s)
    ELSE PerRequestClients(md, construct)

\* A resolver that falls back to the shared pair when the request's
\* configuration is missing or does not parse.
GetWFClient_FallsBack(s, md, construct) ==
    IF ~s.enableClientAuth THEN SharedClients(s)
    ELSE LET c == PerRequestClients(md, construct)
         IN  IF c.built = 0 /\ c.err # Err("wfclientset.NewForConfig failed")
             THEN SharedClients(s) ELSE c

GetWFClient(s, md, construct) ==
    IF ~s.enableClientAuth THEN SharedClients(s)
    ELSE PerRequestClients(md, construct)

\* A namespace rule that never lets the request override the server's.
EffectiveNamespace_ServerOnly(s, reqNamespace) == s.namespace

\* namespace := wts.namespace; if req.Namespace != "" { namespace = req.Namespace }
EffectiveNamespace(s, reqNamespace) ==
    IF reqNamespace # "" THEN reqNamespace ELSE s.namespace

(***************************************************************************)
(* The backend: WorkflowTemplates(namespace).Create/Get/List/Delete.       *)
(* avail is whether the call gets through; a call that does not fails and  *)
(* changes nothing.                                                        *)
(***************************************************************************)
Named(st, namespace, name) == {t \in st[namespace] : t.name = name}

BackendCreate(st, namespace, tmpl, avail) ==
    IF ~avail
    THEN [store |-> st, val |-> NilPtr, err |-> Err("backend unavailable")]
    ELSE IF Named(st, namespace, tmpl.name) # {}
    THEN [store |-> st, val |-> NilPtr, err |-> Err("AlreadyExists")]
    ELSE [store |-> [st EXCEPT ![namespace] = @ \cup {tmpl}],
          val |-> Ptr(tmpl), err |-> NoErr]

BackendGet(st, namespace, name, avail) ==
    IF ~avail
    THEN [store |-> st, val |-> NilPtr, err |-> Err("backend unavailable")]
    ELSE IF Named(st, namespace, name) = {}
    THEN [store |-> st, val |-> NilPtr, err |-> Err("NotFound")]
    ELSE [store |-> st,
          val |-> Ptr(CHOOSE t \in Named(st, namespace, name) : TRUE),
          err |-> NoErr]

BackendList(st, namespace, avail) ==
    IF ~avail
    THEN [store |-> st, val |-> NilPtr, err |-> Err("backend unavailable")]
    ELSE [store |-> st, val |-> Ptr([Items |-> st[namespace]]), err |-> NoErr]

BackendDelete(st, namespace, name, avail) ==
    IF ~avail
    THEN [store |-> st, val |-> NilPtr, err |-> Err("backend unavailable")]
    ELSE IF Named(st, namespace, name) = {}
    THEN [store |-> st, val |-> NilPtr, err |-> Err("NotFound")]
    ELSE [store |-> [st EXCEPT ![namespace] = @ \ Named(st, namespace, name)],
          val |-> NilPtr, err |-> NoErr]

(***************************************************************************)
(* validate.ValidateWorkflowTemplate(getter, tmpl): the template is valid  *)
(* when the template it calls resolves through the getter, which looks it  *)
(* up in the getter's namespace.  On a nil template it cannot accept:      *)
(* onNil is whether it reports an error or dereferences nil and panics.    *)
(***************************************************************************)
NilOutcomes == {"error", "panic"}

ValidateWorkflowTemplate(st, namespace, tmpl, avail, onNil) ==
    IF tmpl = NilPtr
    THEN IF onNil = "panic"
         THEN [status |-> "panic", err |-> NoErr]
         ELSE [status |-> "returned", err |-> Err("template is nil")]
    ELSE LET t == tmpl[1]
         IN  IF t.ref = "" THEN [status |-> "returned", err |-> NoErr]
             ELSE LET got == BackendGet(st, namespace, t.ref, avail)
                  IN  IF got.err # NoErr
                      THEN [status |-> "returned",
                            err |-> Wrap("template reference not resolved", got.err)]
                      ELSE [status |-> "returned", err |-> NoErr]

(***************************************************************************)
(* The handlers, piece by piece.  A frame holds a running handler's        *)
(* locals: the request, the resolved wfClient, the namespace, the calls    *)
(* it has made (in order) and, once it has returned, its result.           *)
(***************************************************************************)
Done(f, res) == [f EXCEPT !.pc = "done", !.res = res]

\* A call made through a client: the validation collaborator (with its
\* getter's namespace) or one backend operation.
Call(f, what, client, namespace, ok) ==
    [call |-> what, client |-> client, namespace |-> namespace,
     tmpl |-> IF what \in {"validate", "create"} THEN f.req.tmpl ELSE NilPtr,
     ok |-> ok]

\* Calls that go through the server's shared client instead of the local.
CallClient_Shared(s, f) == s.wfClientset

\* The client the handler's calls go through: its local wfClient.
CallClient(s, f) == f.wfClient

\* wfClient, _, err := wts.GetWFClient(ctx); if err != nil { return nil, err }
Enter(s, op, req, md, construct) ==
    LET c == GetWFClient(s, md, construct)
        f == [IdleSlot EXCEPT !.op = op, !.req = req, !.md = md,
                              !.wfClient = c.wf, !.built = c.built]
    IN  IF c.err # NoErr THEN Done(f, Return(NilPtr, c.err))
        ELSE [f EXCEPT !.pc = "resolved"]

\* CreateWorkflowTemplate up to its first call.
CreateEnter(s, req, md, construct) ==
    LET f == Enter(s, "Create", req, md, construct)
    IN  IF f.pc = "done" THEN f
        ELSE LET g == [f EXCEPT !.namespace = EffectiveNamespace(s, req.ns)]
             IN  IF req.tmpl = NilPtr
                 THEN Done(g, Return(NilPtr,
                          Err("WorkflowTemplate is not found in Request body")))
                 ELSE [g EXCEPT !.pc = "validate"]

\* A Create that goes on to the backend whatever validation answered.
CreateValidated_IgnoresVerdict(s, f, v) ==
    LET g == [f EXCEPT !.calls = Append(@,
                 Call(f, "validate", CallClient(s, f), f.namespace,
                      v.status = "returned" /\ v.err = NoErr))]
    IN  IF v.status = "panic" THEN Done(g, Panicked)
        ELSE [g EXCEPT !.pc = "backend"]

\* CreateWorkflowTemplate once ValidateWorkflowTemplate has answered v.
CreateValidated(s, f, v) ==
    LET g == [f EXCEPT !.calls = Append(@,
                 Call(f, "validate", CallClient(s, f), f.namespace,
                      v.status = "returned" /\ v.err = NoErr))]
    IN  IF v.status = "panic" THEN Done(g, Panicked)
        ELSE IF v.err # NoErr
        THEN Done(g, Return(NilPtr,
                 Wrap("Failed to create workflow template", v.err)))
        ELSE [g EXCEPT !.pc = "backend"]

\* CreateWorkflowTemplate once the backend's Create has answered b.
CreateReturned(s, f, b) ==
    LET g == [f EXCEPT !.calls = Append(@,
                 Call(f, "create", CallClient(s, f), f.namespace, b.err = NoErr))]
    IN  IF b.err # NoErr THEN Done(g, Return(NilPtr, b.err))
        ELSE Done(g, Return(b.val, b.err))

\* A Lint that validates in the server's namespace whatever the request says.
LintEnter_DefaultNamespace(s, req, md, construct) ==
    LET f == Enter(s, "Lint", req, md, construct)
    IN  IF f.pc = "done" THEN f
        ELSE [f EXCEPT !.namespace = s.namespace, !.pc = "validate"]

\* LintWorkflowTemplate up to its first call: no check of req.Template.
LintEnter(s, req, md, construct) ==
    LET f == Enter(s, "Lint", req, md, construct)
    IN  IF f.pc = "done" THEN f
        ELSE [f EXCEPT !.namespace = EffectiveNamespace(s, req.ns),
                       !.pc = "validate"]

\* LintWorkflowTemplate once ValidateWorkflowTemplate has answered v.
LintValidated(s, f, v) ==
    LET g == [f EXCEPT !.calls = Append(@,
                 Call(f, "validate", CallClient(s, f), f.namespace,
                      v.status = "returned" /\ v.err = NoErr))]
    IN  IF v.status = "panic" THEN Done(g, Panicked)
        ELSE IF v.err # NoErr THEN Done(g, Return(NilPtr, v.err))
        ELSE Done(g, Return(f.req.tmpl, NoErr))

\* A Lint that stores the template once it has validated.
LintStore_Persists(st, f, v) ==
    IF v.status = "returned" /\ v.err = NoErr /\ f.req.tmpl # NilPtr
    THEN BackendCreate(st, f.namespace, f.req.tmpl[1], TRUE).store
    ELSE st

\* The store after LintWorkflowTemplate's validation: Lint writes nothing.
LintStore(st, f, v) == st

(***************************************************************************)
(* A handler run from entry to return against one store state, nothing     *)
(* interleaved: ch fixes what the constructors, the validation lookup and  *)
(* the backend do.  The result is the handler's final frame.               *)
(***************************************************************************)
Choices ==
    [construct : Constructions, vAvail : BOOLEAN, onNil : NilOutcomes,
     cAvail : BOOLEAN]

RunCreate(s, st, req, md, ch) ==
    LET f0 == CreateEnter(s, req, md, ch.construct)
        f1 == CreateValidated(s, f0,
                  ValidateWorkflowTemplate(st, f0.namespace, req.tmpl,
                                           ch.vAvail, ch.onNil))
    IN  IF f0.pc = "done" THEN f0
        ELSE IF f1.pc = "done" THEN f1
        ELSE CreateReturned(s, f1,
                 BackendCreate(st, f1.namespace, req.tmpl[1], ch.cAvail))

RunLint(s, st, req, md, ch) ==
    LET f0 == LintEnter(s, req, md, ch.construct)
    IN  IF f0.pc = "done" THEN f0
        ELSE LintValidated(s, f0,
                 ValidateWorkflowTemplate(st, f0.namespace, req.tmpl,
                                          ch.vAvail, ch.onNil))

\* The caller got no result: an error came back or the handler panicked.
Failed(f) == f.res.status = "panic" \/ f.res.err # NoErr

\* Get, List and Delete up to their backend call.
BackendEnter(s, op, req, md, construct) ==
    LET f == Enter(s, op, req, md, construct)
    IN  IF f.pc = "done" THEN f
        ELSE [f EXCEPT !.namespace = EffectiveNamespace(s, req.ns),
                       !.pc = "backend"]

GetReturned(s, f, b) ==
    LET g == [f EXCEPT !.calls = Append(@,
                 Call(f, "get", CallClient(s, f), f.namespace, b.err = NoErr))]
    IN  IF b.err # NoErr THEN Done(g, Return(NilPtr, b.err))
        ELSE Done(g, Return(b.val, b.err))

ListReturned(s, f, b) ==
    LET g == [f EXCEPT !.calls = Append(@,
                 Call(f, "list", CallClient(s, f), f.namespace, b.err = NoErr))]
    IN  IF b.err # NoErr THEN Done(g, Return(NilPtr, b.err))
        ELSE Done(g, Return(b.val, NoErr))

DeleteReturned(s, f, b) ==
    LET g == [f EXCEPT !.calls = Append(@,
                 Call(f, "delete", CallClient(s, f), f.namespace, b.err = NoErr))]
    IN  IF b.err # NoErr THEN Done(g, Return(NilPtr, b.err))
        ELSE Done(g, Return(
                 Ptr([TemplateName |-> f.req.name, Status |-> "Deleted"]), NoErr))

(***************************************************************************)
(* The state machine.  A request enters a free slot with its request       *)
(* message and metadata, runs its handler step by step and leaves.         *)
(***************************************************************************)
Init ==
    /\ server \in { NewWorkflowTemplateServer(DefaultNamespace, SharedWfClient,
                                              SharedKubeClient, auth) :
                    auth \in BOOLEAN }
    /\ store = [n \in Namespaces |-> {}]
    /\ slot = [r \in Reqs |-> IdleSlot]
    /\ ctxCancelled = [r \in Reqs |-> FALSE]
    /\ backendUp = TRUE

\* A handler that has returned answers before anything else moves: sending
\* the response touches only the handler's own slot, so taking it first
\* loses no behaviour of the store or of the other requests.
NoneDone == \A q \in Reqs : slot[q].pc # "done"

\* No handler is running in slot r.
Free(r) == slot[r].pc = "idle"

Put(r, f) ==
    /\ NoneDone
    /\ slot' = [slot EXCEPT ![r] = f]
    /\ UNCHANGED <<server, ctxCancelled, backendUp>>

CreateWorkflowTemplate(r) ==
    \/ /\ Free(r)
       /\ \E req \in CreateRequests, md \in Metadata, c \in Constructions :
              Put(r, CreateEnter(server, req, md, c))
       /\ UNCHANGED store
    \/ /\ slot[r].pc = "validate" /\ slot[r].op = "Create" /\ backendUp
       /\ \E avail \in BOOLEAN, onNil \in NilOutcomes :
              Put(r, CreateValidated(server, slot[r],
                     ValidateWorkflowTemplate(store, slot[r].namespace,
                                              slot[r].req.tmpl, avail, onNil)))
       /\ UNCHANGED store
    \/ /\ slot[r].pc = "backend" /\ slot[r].op = "Create" /\ backendUp
       /\ \E avail \in BOOLEAN :
              LET b == BackendCreate(store, slot[r].namespace,
                                     slot[r].req.tmpl[1], avail)
              IN  /\ Put(r, CreateReturned(server, slot[r], b))
                  /\ store' = b.store

GetWorkflowTemplate(r) ==
    \/ /\ Free(r)
       /\ \E req \in GetRequests, md \in Metadata, c \in Constructions :
              Put(r, BackendEnter(server, "Get", req, md, c))
       /\ UNCHANGED store
    \/ /\ slot[r].pc = "backend" /\ slot[r].op = "Get" /\ backendUp
       /\ \E avail \in BOOLEAN :
              LET b == BackendGet(store, slot[r].namespace,
                                  slot[r].req.name, avail)
              IN  /\ Put(r, GetReturned(server, slot[r], b))
                  /\ store' = b.store

ListWorkflowTemplates(r) ==
    \/ /\ Free(r)
       /\ \E req \in ListRequests, md \in Metadata, c \in Constructions :
              Put(r, BackendEnter(server, "List", req, md, c))
       /\ UNCHANGED store
    \/ /\ slot[r].pc = "backend" /\ slot[r].op = "List" /\ backendUp
       /\ \E avail \in BOOLEAN :
              LET b == BackendList(store, slot[r].namespace, avail)
              IN  /\ Put(r, ListReturned(server, slot[r], b))
                  /\ store' = b.store

DeleteWorkflowTemplate(r) ==
    \/ /\ Free(r)
       /\ \E req \in DeleteRequests, md \in Metadata, c \in Constructions :
              Put(r, BackendEnter(server, "Delete", req, md, c))
       /\ UNCHANGED store
    \/ /\ slot[r].pc = "backend" /\ slot[r].op = "Delete" /\ backendUp
       /\ \E avail \in BOOLEAN :
              LET b == BackendDelete(store, slot[r].namespace,
                                     slot[r].req.name, avail)
              IN  /\ Put(r, DeleteReturned(server, slot[r], b))
                  /\ store' = b.store

LintWorkflowTemplate(r) ==
    \/ /\ Free(r)
       /\ \E req \in CreateRequests, md \in Metadata, c \in Constructions :
              Put(r, LintEnter(server, req, md, c))
       /\ UNCHANGED store
    \/ /\ slot[r].pc = "validate" /\ slot[r].op = "Lint" /\ backendUp
       /\ \E avail \in BOOLEAN, onNil \in NilOutcomes :
              LET v == ValidateWorkflowTemplate(store, slot[r].namespace,
                                                slot[r].req.tmpl, avail, onNil)
              IN  /\ Put(r, LintValidated(server, slot[r], v))
                  /\ store' = LintStore(store, slot[r], v)

\* The handler has returned and its response is sent: the slot is free.
Respond(r) ==
    /\ slot[r].pc = "done"
    /\ slot' = [slot EXCEPT ![r] = IdleSlot]
    /\ ctxCancelled' = [ctxCancelled EXCEPT ![r] = FALSE]
    /\ UNCHANGED <<server, store, backendUp>>

Handle(r) ==
    \/ CreateWorkflowTemplate(r)
    \/ GetWorkflowTemplate(r)
    \/ ListWorkflowTemplates(r)
    \/ DeleteWorkflowTemplate(r)
    \/ LintWorkflowTemplate(r)
    \/ Respond(r)

Next == \E r \in Reqs : Handle(r)

Spec == Init /\ [][Next]_vars

\* The server with one request at a time: handlers run back to back.
SerialSpec == Init /\ [][Handle(1)]_vars

(***************************************************************************)
(* Cancellation.  One request whose caller may cancel its context while a  *)
(* call is outstanding, against a backend that may never answer.  No       *)
(* handler reads ctx, so Cancel changes nothing but the flag.  A handler   *)
(* whose next step is enabled takes it.                                    *)
(***************************************************************************)
InCall(r) == slot[r].pc \in {"validate", "backend"}

Cancel(r) ==
    /\ InCall(r)
    /\ ~ctxCancelled[r]
    /\ ctxCancelled' = [ctxCancelled EXCEPT ![r] = TRUE]
    /\ UNCHANGED <<server, store, slot, backendUp>>

CancelInit ==
    /\ server \in { NewWorkflowTemplateServer(DefaultNamespace, SharedWfClient,
                                              SharedKubeClient, auth) :
                    auth \in BOOLEAN }
    /\ store = [n \in Namespaces |-> {}]
    /\ slot = [r \in Reqs |-> IdleSlot]
    /\ ctxCancelled = [r \in Reqs |-> FALSE]
    /\ backendUp \in BOOLEAN

CancelNext == Handle(1) \/ Cancel(1)

CancelSpec == CancelInit /\ [][CancelNext]_vars /\ WF_vars(Handle(1))

(***************************************************************************)
(* Properties.                                                             *)
(***************************************************************************)
\* The descriptor a request's configuration blob parses to.
ParsedConfig(md) == Unmarshal(md.cfg[1], ZeroConfig).cfg

\* The errors GetWFClient returns.
ResolverErrors ==
    { Err("Client kubeconfig is not found"), Err("invalid character"),
      Err("wfclientset.NewForConfig failed"),
      Err("kubernetes.NewForConfig failed") }

MissingBody == Err("WorkflowTemplate is not found in Request body")

\* The namespace a request is to act in: its own when given, else the
\* namespace the server was started with.
Expected(r) ==
    IF slot[r].req.ns # "" THEN slot[r].req.ns ELSE DefaultNamespace

\* C1: in per-request-auth mode, the bearer token of the descriptor both
\* clients are built from is the attached token when one is attached, and
\* the token embedded in the parsed blob when none is.
C1_TokenAttachedElseAsParsed ==
    \A r \in Reqs :
        (server.enableClientAuth /\ slot[r].built = 2) =>
            LET md   == slot[r].md
                want == IF Len(md.tok) > 0 THEN md.tok[1]
                        ELSE ParsedConfig(md).BearerToken
            IN  /\ slot[r].wfClient.cfg.BearerToken = want
                /\ GetWFClient(server, md, "ok").kube.cfg.BearerToken = want

\* C2: with enableClientAuth false, every request, whatever its metadata,
\* resolves to the pair the server was constructed with, with no error and
\* no client constructed.
C2_SharedPairWhenAuthDisabled ==
    ~server.enableClientAuth =>
        \A r \in Reqs :
            slot[r].pc # "idle" =>
                /\ slot[r].wfClient = SharedWfClient
                /\ slot[r].built = 0
                /\ slot[r].res.err \notin ResolverErrors
                /\ \A c \in Constructions :
                       GetWFClient(server, slot[r].md, c) =
                           [wf |-> SharedWfClient, kube |-> SharedKubeClient,
                            err |-> NoErr, built |-> 0]

\* C2 witness: with auth disabled, a request carrying a malformed blob and a
\* token has been served through a backend call.
C2_Witness ==
    \E r \in Reqs :
        /\ ~server.enableClientAuth
        /\ slot[r].pc = "done"
        /\ slot[r].md = [cfg |-> <<BlobBad>>, tok |-> <<"tok">>]
        /\ slot[r].calls # <<>>
        /\ slot[r].res.err = NoErr

\* The handler in slot r returned error e from its resolver and did nothing
\* else: no client, no call.
Rejected(r, e) ==
    /\ slot[r].pc = "done"
    /\ slot[r].res = Return(NilPtr, e)
    /\ slot[r].calls = <<>>
    /\ slot[r].built = 0
    /\ slot[r].wfClient = NilClient

\* C3: in per-request-auth mode each operation returns the resolver's error
\* for a missing or a malformed configuration, having built no client and
\* made no validation or backend call, and never with the shared pair.
C3_CredentialErrorsEndTheRequest ==
    server.enableClientAuth =>
        \A r \in Reqs :
            slot[r].pc # "idle" =>
                /\ Len(slot[r].md.cfg) = 0 =>
                       Rejected(r, Err("Client kubeconfig is not found"))
                /\ (Len(slot[r].md.cfg) > 0 /\ slot[r].md.cfg[1].syntax # "ok") =>
                       Rejected(r, Unmarshal(slot[r].md.cfg[1], ZeroConfig).err)

\* C3 witness: in per-request-auth mode a Delete of a stored template, sent
\* with a malformed blob, has been rejected.
C3_Witness ==
    \E r \in Reqs :
        /\ server.enableClientAuth
        /\ slot[r].op = "Delete"
        /\ slot[r].md.cfg = <<BlobBad>>
        /\ Rejected(r, Err("invalid character"))
        /\ Named(store, Expected(r), slot[r].req.name) # {}

\* The handler in slot r has just returned from a Create or a Lint request:
\* the store is as its last step left it.
Handled(r) == slot[r].pc = "done" /\ slot[r].op \in {"Create", "Lint"}

\* C4 as claimed: for a request just handled, run as a Create and as a Lint
\* on the same store state with the same validation behaviour, Create fails
\* exactly when Lint fails.
C4_CreateFailsIffLintFails ==
    \A r \in Reqs :
        Handled(r) =>
            \A ch \in Choices :
                Failed(RunCreate(server, store, slot[r].req, slot[r].md, ch))
                    <=> Failed(RunLint(server, store, slot[r].req, slot[r].md, ch))

\* Final frames c of a Create and l of a Lint: l fails only if c does, and
\* when only c fails it has validated and then failed to create.
Agree(c, l) ==
    /\ Failed(l) => Failed(c)
    /\ (Failed(c) /\ ~Failed(l)) =>
           /\ Len(c.calls) = 2
           /\ c.calls[1].call = "validate" /\ c.calls[1].ok
           /\ c.calls[2].call = "create" /\ ~c.calls[2].ok

\* C4 as amended: for a request just handled, run as a Create and as a Lint
\* on the same store state with the same validation behaviour, Lint fails
\* only if Create fails, and a Create that fails where Lint succeeds has
\* passed validation and failed in its backend create call.
C4_LintFailsOnlyIfCreateFails ==
    \A r \in Reqs :
        Handled(r) =>
            \A ch \in Choices :
                Agree(RunCreate(server, store, slot[r].req, slot[r].md, ch),
                      RunLint(server, store, slot[r].req, slot[r].md, ch))

\* C4 witness: a Create has failed because the name exists, and Lint of the
\* same request on this store succeeds.
C4_Witness ==
    \E r \in Reqs :
        /\ slot[r].op = "Create"
        /\ slot[r].pc = "done"
        /\ slot[r].res.err = Err("AlreadyExists")
        /\ \E ch \in Choices :
               ~Failed(RunLint(server, store, slot[r].req, slot[r].md, ch))

\* C5: a Lint request without a template returns the missing-body error
\* and does not invoke validation.
C5_LintRejectsMissingBody ==
    \A r \in Reqs :
        (/\ slot[r].op = "Lint"
         /\ slot[r].req.tmpl = NilPtr
         /\ slot[r].res.err \notin ResolverErrors) =>
            /\ slot[r].pc = "done"
            /\ slot[r].res = Return(NilPtr, MissingBody)
            /\ slot[r].calls = <<>>

\* The last call of frame f was a successful validation of f's template in
\* f's namespace.
JustValidated(f) ==
    /\ f.calls # <<>>
    /\ LET v == f.calls[Len(f.calls)]
       IN  /\ v.call = "validate" /\ v.ok
           /\ v.tmpl = f.req.tmpl
           /\ v.namespace = f.namespace

C6_Calls ==
    \A r \in Reqs :
        slot[r].op = "Create" =>
            LET cs == slot[r].calls
            IN  /\ \A i \in DOMAIN cs :
                       cs[i].call = "create" =>
                           /\ i > 1
                           /\ cs[i-1].call = "validate" /\ cs[i-1].ok
                           /\ cs[i-1].tmpl = cs[i].tmpl
                           /\ cs[i-1].namespace = cs[i].namespace
                           /\ cs[i].tmpl = slot[r].req.tmpl
                /\ slot[r].pc = "backend" => JustValidated(slot[r])
                /\ (\/ slot[r].res.err = MissingBody
                    \/ /\ slot[r].res.err # NoErr
                       /\ Head(slot[r].res.err) = "Failed to create workflow template")
                       => \A i \in DOMAIN cs : cs[i].call # "create"

C6_Writes ==
    \A r \in Reqs :
        (slot'[r].op = "Create" /\ slot'[r].pc # slot[r].pc /\ store' # store) =>
            /\ slot[r].pc = "backend"
            /\ JustValidated(slot[r])
            /\ store' = [store EXCEPT ![slot[r].namespace] =
                                          @ \cup {slot[r].req.tmpl[1]}]

\* C6: a Create issues its backend create only after validation of the
\* same template in the same namespace has succeeded; a Create that ends
\* with the missing-body or the validation error has issued none, and no
\* step of a Create changes the store except such a create.
C6_ValidationBeforeCreate == []C6_Calls /\ [][C6_Writes]_vars

\* C6 witness: a Create of a template that calls another one has validated,
\* created and returned the stored object.
C6_Witness ==
    \E r \in Reqs :
        /\ slot[r].op = "Create"
        /\ slot[r].pc = "done"
        /\ slot[r].res.err = NoErr
        /\ slot[r].res.val = slot[r].req.tmpl
        /\ slot[r].req.tmpl[1].ref # ""
        /\ Len(slot[r].calls) = 2
        /\ slot[r].req.tmpl[1] \in store[slot[r].namespace]

C7_Calls ==
    \A r \in Reqs :
        slot[r].pc # "idle" =>
            /\ \A i \in DOMAIN slot[r].calls :
                   slot[r].calls[i].namespace = Expected(r)
            /\ slot[r].pc \in {"validate", "backend"} =>
                   slot[r].namespace = Expected(r)

C7_Writes ==
    \A n \in Namespaces :
        store'[n] # store[n] =>
            \E r \in Reqs :
                /\ slot[r].pc = "backend" /\ slot'[r].pc = "done"
                /\ Expected(r) = n

\* C7: every call of every operation names the request's namespace when it
\* is non-empty and the server's default otherwise, and a step changes the
\* store in that namespace only.
C7_NamespaceOverrideElseDefault == []C7_Calls /\ [][C7_Writes]_vars

\* C7 witness: a Delete without a namespace has removed a template from the
\* default namespace while the other namespace still holds one of that name.
C7_Witness ==
    \E r \in Reqs :
        /\ slot[r].op = "Delete"
        /\ slot[r].pc = "done"
        /\ slot[r].req.ns = ""
        /\ slot[r].res.err = NoErr
        /\ Named(store, DefaultNamespace, slot[r].req.name) = {}
        /\ Named(store, "ns-b", slot[r].req.name) # {}

C8_Calls ==
    \A r \in Reqs :
        slot[r].op = "Lint" =>
            /\ \A i \in DOMAIN slot[r].calls :
                   slot[r].calls[i].call = "validate"
            /\ (slot[r].pc = "done" /\ ~Failed(slot[r])) =>
                   slot[r].res.val = slot[r].req.tmpl

C8_Writes ==
    \A r \in Reqs :
        ((slot[r].op = "Lint" \/ slot'[r].op = "Lint")
            /\ slot'[r].pc # slot[r].pc) => store' = store

\* C8: no step of a Lint, failing or succeeding, changes the stored
\* templates of any namespace; Lint makes no call but validation, and on
\* success returns the template it was given.
C8_LintNeverPersists == []C8_Calls /\ [][C8_Writes]_vars

\* C8 witness: a Lint of a template that calls another one has succeeded and
\* the template is not stored in its namespace.
C8_Witness ==
    \E r \in Reqs :
        /\ slot[r].op = "Lint"
        /\ slot[r].pc = "done"
        /\ slot[r].req.tmpl # NilPtr
        /\ slot[r].res = Return(slot[r].req.tmpl, NoErr)
        /\ slot[r].req.tmpl[1].ref # ""
        /\ Named(store, slot[r].namespace, slot[r].req.tmpl[1].name) = {}

\* C9: an operation whose context was cancelled while its call was
\* outstanding returns a cancellation error.
C9_CancelledCallReturnsCancelled ==
    \A r \in Reqs :
        (ctxCancelled[r] /\ slot[r].pc = "done") =>
            slot[r].res.err = Err("context canceled")

\* C9, the progress half: once cancelled during a call, the operation
\* eventually returns a cancellation error.
C9_CancelledCallEventuallyReturns ==
    \A r \in Reqs :
        (ctxCancelled[r] /\ InCall(r)) ~>
            (slot[r].pc = "done" /\ slot[r].res.err = Err("context canceled"))

\* Client c was built from the metadata of the request in slot r.
Own(r, c) ==
    LET md == slot[r].md
    IN  /\ c.kind = "wf"
        /\ c # server.wfClientset
        /\ c.cfg.Host = ParsedConfig(md).Host
        /\ Len(md.tok) > 0 => c.cfg.BearerToken = md.tok[1]
        /\ Len(md.tok) = 0 =>
               c.cfg.BearerToken \in {"", ParsedConfig(md).BearerToken}

C10_Clients ==
    server.enableClientAuth =>
        \A r \in Reqs :
            /\ InCall(r) => Own(r, slot[r].wfClient)
            /\ \A i \in DOMAIN slot[r].calls : Own(r, slot[r].calls[i].client)

C10_ServerFixed == server' = server

\* C10: in per-request-auth mode, under every interleaving, each call of a
\* request goes through a client built from that request's own blob and
\* token, and no step changes a field of the server.
C10_OwnClientOnly == []C10_Clients /\ [][C10_ServerFixed]_vars

\* C10 witness: two Creates are in flight at once in per-request-auth mode,
\* each past its validation call, through different clients.
C10_Witness ==
    \E r, q \in Reqs :
        /\ server.enableClientAuth
        /\ r # q
        /\ slot[r].pc = "backend" /\ slot[q].pc = "backend"
        /\ slot[r].calls # <<>> /\ slot[q].calls # <<>>
        /\ slot[r].wfClient # slot[q].wfClient

=============================================================================
